---- MODULE Spec2Model ----
(***************************************************************************)
(* Model of batch_push.py: the changed paths reported by                   *)
(* `git status --porcelain -z` are parsed, cut into slices of BATCH_SIZE   *)
(* paths, and each slice is staged, committed and pushed in turn.          *)
(*                                                                         *)
(* Bytes are integers 0..255, text is a sequence of code points.  Every    *)
(* external command has three outcomes: "ok" (exit status 0), "fail"       *)
(* (non-zero exit status) and "oserr" (the process could not be started,   *)
(* subprocess.run raises OSError).                                         *)
(***************************************************************************)
EXTENDS Integers, Sequences, FiniteSets, TLC

\* ---------------------------------------------------------------- bounds
MaxRecords == 3
MaxBatchSize == 2

\* ------------------------------------------------------------- constants
COMMIT_MSG_PREFIX == "Auto-batch commit: Part"
list_file == "temp_batch_list.txt"

NUL == 0

\* Status records git may report (bytes between two NUL terminators).
RecEmpty     == << >>
RecModified  == <<77, 32, 32, 97>>          \* "M  a"
RecUntracked == <<63, 63, 32, 98>>          \* "?? b"
RecNoPath    == <<65, 32, 32>>              \* "A  "  (nothing after the prefix)
RecBadByte   == <<63, 63, 32, 255>>         \* "?? \xff"  (not UTF-8)
RecTwoByte   == <<63, 63, 32, 195, 169>>    \* "?? \xc3\xa9"  (U+00E9)
RecTruncated == <<63, 63, 32, 97, 195>>     \* "?? a\xc3"  (cut multi-byte sequence)
RecordPool ==
  {RecEmpty, RecModified, RecUntracked, RecNoPath, RecBadByte, RecTwoByte, RecTruncated}

Outcomes == {"ok", "fail", "oserr"}

VARIABLES
  records,      \* what git reports: the status records, in order
  statusOut,    \* stdout of the status query: every record followed by NUL
  BATCH_SIZE,   \* module-level configuration value
  pc,           \* position of main()
  all_files, total_files, num_batches, i, batch_files,
  tempFile,     \* temp_batch_list.txt: [exists, lines]
  pending,      \* how the try statement is left: "none", "break" or "raise"
  log,          \* the external commands issued so far, with their outcome
  fileWrites,   \* number of times the list file was opened for writing
  exit          \* "running", "ok" (normal return) or "error" (uncaught exception)

vars == <<records, statusOut, BATCH_SIZE, pc, all_files, total_files, num_batches,
          i, batch_files, tempFile, pending, log, fileWrites, exit>>

\* ----------------------------------------------------------- pure helpers
Min(a, b) == IF a < b THEN a ELSE b

\* Python slice s[a:b] with 0 <= a (0-based, end exclusive).
Slice(s, a, b) == SubSeq(s, a + 1, Min(b, Len(s)))

RECURSIVE Terminated(_)
\* git -z output: each record is followed by a NUL byte.
Terminated(rs) ==
  IF rs = << >> THEN << >> ELSE Head(rs) \o <<NUL>> \o Terminated(Tail(rs))

RECURSIVE SplitFrom(_, _, _)
SplitFrom(s, k, cur) ==
  IF k > Len(s) THEN <<cur>>
  ELSE IF s[k] = NUL THEN <<cur>> \o SplitFrom(s, k + 1, << >>)
  ELSE SplitFrom(s, k + 1, Append(cur, s[k]))

\* bytes.split(b'\x00')
Split(s) == SplitFrom(s, 1, << >>)

\* Number of bytes of the UTF-8 sequence a lead byte announces (0: not a lead byte).
SeqLen(b) ==
  IF b < 128 THEN 1
  ELSE IF b >= 194 /\ b <= 223 THEN 2
  ELSE IF b >= 224 /\ b <= 239 THEN 3
  ELSE IF b >= 240 /\ b <= 244 THEN 4
  ELSE 0

\* Is b acceptable as the k-th continuation byte after this lead byte?
ContOK(lead, k, b) ==
  LET lo == IF k = 1 /\ lead = 224 THEN 160 ELSE IF k = 1 /\ lead = 240 THEN 144 ELSE 128
      hi == IF k = 1 /\ lead = 237 THEN 159 ELSE IF k = 1 /\ lead = 244 THEN 143 ELSE 191
  IN  b >= lo /\ b <= hi

\* Length of the longest well-formed prefix of the sequence starting at s[p].
GoodPrefix(s, p) ==
  LET n   == SeqLen(s[p])
      bad == {k \in 1..(n - 1) : p + k > Len(s) \/ ~ContOK(s[p], k, s[p + k])}
  IN  IF bad = {} THEN n ELSE CHOOSE k \in bad : \A m \in bad : k <= m

CodePoint(s, p, n) ==
  IF n = 1 THEN s[p]
  ELSE IF n = 2 THEN (s[p] - 192) * 64 + (s[p + 1] - 128)
  ELSE IF n = 3 THEN (s[p] - 224) * 4096 + (s[p + 1] - 128) * 64 + (s[p + 2] - 128)
  ELSE (s[p] - 240) * 262144 + (s[p + 1] - 128) * 4096 + (s[p + 2] - 128) * 64
       + (s[p + 3] - 128)

RECURSIVE DecodeFrom(_, _)
DecodeFrom(s, p) ==
  IF p > Len(s) THEN << >>
  ELSE LET n == SeqLen(s[p]) IN
       IF n = 0 THEN DecodeFrom(s, p + 1)
       ELSE LET g == GoodPrefix(s, p) IN
            IF g = n THEN <<CodePoint(s, p, n)>> \o DecodeFrom(s, p + n)
            ELSE DecodeFrom(s, p + g)

\* bytes.decode('utf-8', errors='ignore'): malformed bytes are dropped.
Decode(s) == DecodeFrom(s, 1)

\* Mutant: the status prefix is taken to be two bytes wide.
FilePathOf_TwoBytePrefix(entry) == Decode(Slice(entry, 2, Len(entry)))

FilePathOf(entry) == Decode(Slice(entry, 3, Len(entry)))

RECURSIVE ParseEntries_KeepEmpty(_)
\* Mutant: neither empty entries nor empty paths are skipped.
ParseEntries_KeepEmpty(entries) ==
  IF entries = << >> THEN << >>
  ELSE <<FilePathOf(Head(entries))>> \o ParseEntries_KeepEmpty(Tail(entries))

RECURSIVE ParseEntries(_)
\* The loop of get_changed_files over the split entries.
ParseEntries(entries) ==
  IF entries = << >> THEN << >>
  ELSE LET entry == Head(entries)
           rest  == ParseEntries(Tail(entries))
       IN  IF entry = << >> THEN rest
           ELSE IF FilePathOf(entry) # << >> THEN <<FilePathOf(entry)>> \o rest
           ELSE rest

\* get_changed_files, given what run_git_command returned ("fail": None).
ChangedFiles(res, stdout) ==
  IF res # "ok" \/ stdout = << >> THEN << >> ELSE ParseEntries(Split(stdout))

\* Mutant: floor division, a trailing short batch is lost.
NumBatches_Floor(n, b) == n \div b

NumBatches(n, b) == (n + b - 1) \div b
StartIndex(k, b) == k * b
EndIndex(k, b, n) == Min(StartIndex(k, b) + b, n)
BatchFiles(files, k, b) == Slice(files, StartIndex(k, b), EndIndex(k, b, Len(files)))

\* Mutant: the loop index is used as the ordinal.
CommitMsg_ZeroBased(k, n) == [prefix |-> COMMIT_MSG_PREFIX, ordinal |-> k, total |-> n]

CommitMsg(k, n) == [prefix |-> COMMIT_MSG_PREFIX, ordinal |-> k + 1, total |-> n]
NoMsg == [prefix |-> "", ordinal |-> 0, total |-> 0]

Cmd(c, b, r, p, m) == [cmd |-> c, batch |-> b, res |-> r, paths |-> p, msg |-> m]

\* Exception raised by subprocess.run(..., check=True) for an outcome.
Raised(res) == IF res = "fail" THEN "CalledProcessError" ELSE "OSError"

\* Mutant: the handler is `except OSError`.
ExceptHandler_OSErrorOnly(exc) == IF exc = "OSError" THEN "break" ELSE "raise"

\* `except Exception as e: ... break`
ExceptHandler(exc) ==
  IF exc \in {"CalledProcessError", "OSError"} THEN "break" ELSE "raise"

NoFile == [exists |-> FALSE, lines |-> << >>]

\* ------------------------------------------------------------------ Init
RecordLists == UNION {[1..n -> RecordPool] : n \in 0..MaxRecords}

Init ==
  /\ records \in RecordLists
  /\ statusOut = Terminated(records)
  /\ BATCH_SIZE \in 1..MaxBatchSize
  /\ pc = "start"
  /\ all_files = << >>
  /\ total_files = 0
  /\ num_batches = 0
  /\ i = 0
  /\ batch_files = << >>
  /\ tempFile = NoFile
  /\ pending = "none"
  /\ log = << >>
  /\ fileWrites = 0
  /\ exit = "running"

\* --------------------------------------------------------------- actions
\* all_files = get_changed_files(); total_files = len(all_files)
GetChangedFiles ==
  /\ pc = "start"
  /\ \E res \in Outcomes :
       /\ log' = Append(log, Cmd("status", 0, res, << >>, NoMsg))
       /\ IF res = "oserr"
          THEN /\ pc' = "done"
               /\ exit' = "error"
               /\ UNCHANGED <<all_files, total_files>>
          ELSE /\ all_files' = ChangedFiles(res, statusOut)
               /\ total_files' = Len(all_files')
               /\ pc' = "check"
               /\ UNCHANGED exit
  /\ UNCHANGED <<records, statusOut, BATCH_SIZE, num_batches, i, batch_files,
                 tempFile, pending, fileWrites>>

\* if total_files == 0: return;  num_batches = ...
CheckEmpty ==
  /\ pc = "check"
  /\ IF total_files = 0
     THEN /\ pc' = "done"
          /\ exit' = "ok"
          /\ UNCHANGED <<num_batches, i>>
     ELSE /\ num_batches' = NumBatches(total_files, BATCH_SIZE)
          /\ i' = 0
          /\ pc' = "loop"
          /\ UNCHANGED exit
  /\ UNCHANGED <<records, statusOut, BATCH_SIZE, all_files, total_files, batch_files,
                 tempFile, pending, log, fileWrites>>

\* Loop head: slice the batch and write the list file, or leave the loop.
BeginBatch ==
  /\ pc = "loop"
  /\ IF i < num_batches
     THEN /\ batch_files' = BatchFiles(all_files, i, BATCH_SIZE)
          /\ tempFile' = [exists |-> TRUE, lines |-> batch_files']
          /\ fileWrites' = fileWrites + 1
          /\ pending' = "none"
          /\ pc' = "add"
     ELSE /\ pc' = "end"
          /\ UNCHANGED <<batch_files, tempFile, fileWrites, pending>>
  /\ UNCHANGED <<records, statusOut, BATCH_SIZE, all_files, total_files, num_batches,
                 i, log, exit>>

\* Mutant: git add is run without check=True.
GitAdd_NoCheck ==
  /\ pc = "add"
  /\ \E res \in Outcomes :
       /\ log' = Append(log, Cmd("add", i + 1, res, tempFile.lines, NoMsg))
       /\ IF res # "oserr"
          THEN pc' = "commit" /\ UNCHANGED pending
          ELSE pc' = "finally" /\ pending' = ExceptHandler(Raised(res))
  /\ UNCHANGED <<records, statusOut, BATCH_SIZE, all_files, total_files, num_batches,
                 i, batch_files, tempFile, fileWrites, exit>>

\* subprocess.run(["git", "add", "--pathspec-from-file=" + list_file], check=True)
GitAdd ==
  /\ pc = "add"
  /\ \E res \in Outcomes :
       /\ log' = Append(log, Cmd("add", i + 1, res, tempFile.lines, NoMsg))
       /\ IF res = "ok"
          THEN pc' = "commit" /\ UNCHANGED pending
          ELSE pc' = "finally" /\ pending' = ExceptHandler(Raised(res))
  /\ UNCHANGED <<records, statusOut, BATCH_SIZE, all_files, total_files, num_batches,
                 i, batch_files, tempFile, fileWrites, exit>>

\* Mutant: git commit is run without check=True.
GitCommit_NoCheck ==
  /\ pc = "commit"
  /\ \E res \in Outcomes :
       /\ log' = Append(log, Cmd("commit", i + 1, res, << >>, CommitMsg(i, num_batches)))
       /\ IF res # "oserr"
          THEN pc' = "push" /\ UNCHANGED pending
          ELSE pc' = "finally" /\ pending' = ExceptHandler(Raised(res))
  /\ UNCHANGED <<records, statusOut, BATCH_SIZE, all_files, total_files, num_batches,
                 i, batch_files, tempFile, fileWrites, exit>>

\* subprocess.run(["git", "commit", "-m", msg], check=True)
GitCommit ==
  /\ pc = "commit"
  /\ \E res \in Outcomes :
       /\ log' = Append(log, Cmd("commit", i + 1, res, << >>, CommitMsg(i, num_batches)))
       /\ IF res = "ok"
          THEN pc' = "push" /\ UNCHANGED pending
          ELSE pc' = "finally" /\ pending' = ExceptHandler(Raised(res))
  /\ UNCHANGED <<records, statusOut, BATCH_SIZE, all_files, total_files, num_batches,
                 i, batch_files, tempFile, fileWrites, exit>>

\* Mutant: the return code of git push is not inspected.
GitPush_NoBreak ==
  /\ pc = "push"
  /\ \E res \in Outcomes :
       /\ log' = Append(log, Cmd("push", i + 1, res, << >>, NoMsg))
       /\ pending' = IF res \in {"ok", "fail"} THEN "none"
                     ELSE ExceptHandler(Raised(res))
  /\ pc' = "finally"
  /\ UNCHANGED <<records, statusOut, BATCH_SIZE, all_files, total_files, num_batches,
                 i, batch_files, tempFile, fileWrites, exit>>

\* push_res = subprocess.run(["git", "push"]); if push_res.returncode != 0: break
GitPush ==
  /\ pc = "push"
  /\ \E res \in Outcomes :
       /\ log' = Append(log, Cmd("push", i + 1, res, << >>, NoMsg))
       /\ pending' = IF res = "ok" THEN "none"
                     ELSE IF res = "fail" THEN "break"
                     ELSE ExceptHandler(Raised(res))
  /\ pc' = "finally"
  /\ UNCHANGED <<records, statusOut, BATCH_SIZE, all_files, total_files, num_batches,
                 i, batch_files, tempFile, fileWrites, exit>>

\* Mutant: the list file is left behind.
Finally_NoRemove ==
  /\ pc = "finally"
  /\ IF pending = "raise"
     THEN pc' = "done" /\ exit' = "error" /\ UNCHANGED i
     ELSE IF pending = "break"
     THEN pc' = "end" /\ UNCHANGED <<i, exit>>
     ELSE pc' = "loop" /\ i' = i + 1 /\ UNCHANGED exit
  /\ UNCHANGED <<records, statusOut, BATCH_SIZE, all_files, total_files, num_batches,
                 batch_files, tempFile, pending, log, fileWrites>>

\* Mutant: `break` is lost, the loop goes on with the next batch.
Finally_IgnoreBreak ==
  /\ pc = "finally"
  /\ tempFile' = IF tempFile.exists THEN NoFile ELSE tempFile
  /\ IF pending = "raise"
     THEN pc' = "done" /\ exit' = "error" /\ UNCHANGED i
     ELSE pc' = "loop" /\ i' = i + 1 /\ UNCHANGED exit
  /\ UNCHANGED <<records, statusOut, BATCH_SIZE, all_files, total_files, num_batches,
                 batch_files, pending, log, fileWrites>>

\* finally: if os.path.exists(list_file): os.remove(list_file)
Finally ==
  /\ pc = "finally"
  /\ tempFile' = IF tempFile.exists THEN NoFile ELSE tempFile
  /\ IF pending = "raise"
     THEN pc' = "done" /\ exit' = "error" /\ UNCHANGED i
     ELSE IF pending = "break"
     THEN pc' = "end" /\ UNCHANGED <<i, exit>>
     ELSE pc' = "loop" /\ i' = i + 1 /\ UNCHANGED exit
  /\ UNCHANGED <<records, statusOut, BATCH_SIZE, all_files, total_files, num_batches,
                 batch_files, pending, log, fileWrites>>

\* print("脚本执行结束。") and return from main
Finish ==
  /\ pc = "end"
  /\ pc' = "done"
  /\ exit' = "ok"
  /\ UNCHANGED <<records, statusOut, BATCH_SIZE, all_files, total_files, num_batches,
                 i, batch_files, tempFile, pending, log, fileWrites>>

Next ==
  \/ GetChangedFiles
  \/ CheckEmpty
  \/ BeginBatch
  \/ GitAdd
  \/ GitCommit
  \/ GitPush
  \/ Finally
  \/ Finish

Spec == Init /\ [][Next]_vars

TypeOK ==
  /\ pc \in {"start", "check", "loop", "add", "commit", "push", "finally", "end", "done"}
  /\ pending \in {"none", "break", "raise"}
  /\ exit \in {"running", "ok", "error"}
  /\ i \in Nat /\ num_batches \in Nat /\ total_files \in Nat

\* ------------------------------------------------------ claim vocabulary
LogIdx == DOMAIN log
Entries(c) == SelectSeq(log, LAMBDA e : e.cmd = c)
Succeeded(c, b) == \E p \in LogIdx : log[p].cmd = c /\ log[p].batch = b /\ log[p].res = "ok"
NumOk(c) == Cardinality({p \in LogIdx : log[p].cmd = c /\ log[p].res = "ok"})
StatusOk == log # << >> /\ log[1].res = "ok"
Failed(c, r) == \E p \in LogIdx : log[p].cmd = c /\ log[p].res = r
\* ceil(n / b), stated without the code's formula
Ceil(n, b) == CHOOSE t \in 0..n : t * b >= n /\ (t = 0 \/ (t - 1) * b < n)
\* the run went through every batch
RunComplete ==
  pc = "done" /\ exit = "ok" /\ \A p \in LogIdx : log[p].cmd # "status" => log[p].res = "ok"

\* C1: the batches handed to the staging command are the slices
\* [j*B, min(j*B+B, N)): each has B paths except possibly the last (N mod B, or B
\* when N mod B = 0), position (j-1)*B+p of the path list is position p of batch j,
\* and a run that goes through all batches builds exactly ceil(N/B) of them.
C1_Partition ==
  LET adds == Entries("add")
      N == Len(all_files)
      B == BATCH_SIZE
      T == Ceil(N, B)
  IN  /\ Len(adds) <= T
      /\ \A j \in 1..Len(adds) :
           /\ adds[j].batch = j
           /\ Len(adds[j].paths) = IF j < T THEN B ELSE IF N % B = 0 THEN B ELSE N % B
           /\ \A p \in 1..Len(adds[j].paths) : adds[j].paths[p] = all_files[(j - 1) * B + p]
      /\ RunComplete => Len(adds) = T

C1_Witness ==
  RunComplete /\ Len(all_files) = 3 /\ BATCH_SIZE = 2 /\ Len(Entries("add")) = 2

\* C2: when the push of batch k returns non-zero, the finished run has staged,
\* committed and pushed batches 1..k-1, has staged and committed but not pushed
\* batch k, has issued nothing for any later batch, and returns normally.
C2_PushFailureStops ==
  pc = "done" =>
    \A p \in LogIdx :
      (log[p].cmd = "push" /\ log[p].res = "fail") =>
        LET k == log[p].batch IN
        /\ \A j \in 1..(k - 1) :
             Succeeded("add", j) /\ Succeeded("commit", j) /\ Succeeded("push", j)
        /\ Succeeded("add", k) /\ Succeeded("commit", k) /\ ~Succeeded("push", k)
        /\ \A q \in LogIdx : log[q].batch <= k
        /\ exit = "ok"

C2_Witness ==
  /\ pc = "done"
  /\ num_batches = 3
  /\ \E p \in LogIdx : log[p].cmd = "push" /\ log[p].res = "fail" /\ log[p].batch = 2

\* C3: after git add failed on batch k nothing else is issued (no commit or push
\* of batch k, nothing for a later batch), and the list file is gone at the end.
C3_StageFailureAborts ==
  \A p \in LogIdx :
    (log[p].cmd = "add" /\ log[p].res # "ok") =>
      /\ p = Len(log)
      /\ \A q \in LogIdx :
           (log[q].cmd \in {"commit", "push"} => log[q].batch < log[p].batch)
           /\ log[q].batch <= log[p].batch
      /\ pc = "done" => ~tempFile.exists

C3_Witness ==
  /\ pc = "done"
  /\ num_batches >= 2
  /\ \E p \in LogIdx : log[p].cmd = "add" /\ log[p].res = "fail" /\ log[p].batch = 1

C5_NoChanges ==
  (StatusOk /\ \A k \in DOMAIN statusOut : statusOut[k] = NUL) =>
    /\ all_files = << >>
    /\ pc \in {"check", "done"}
    /\ fileWrites = 0
    /\ ~tempFile.exists
    /\ Len(log) = 1
    /\ exit # "error"
    /\ pc = "done" => exit = "ok"

C5_Witness ==
  pc = "done" /\ StatusOk /\ statusOut = <<NUL, NUL>> /\ exit = "ok"

\* C6: the list file does not exist at the head of the loop, after the loop or
\* when the run has ended, whatever happened in the iteration before.
C6_TempFileRemoved ==
  pc \in {"loop", "end", "done"} => ~tempFile.exists

C6_Witness ==
  /\ pc = "done"
  /\ fileWrites = 2
  /\ Failed("commit", "fail")
  /\ ~tempFile.exists

\* C7: commands are issued one after the other in batch order: add of batch 1
\* follows the status query, commit follows the successful add of its batch,
\* push the successful commit of its batch, and add of batch b+1 the successful
\* push of batch b.
C7_Sequential ==
  /\ log # << >> => log[1].cmd = "status"
  /\ \A p \in 2..Len(log) :
       LET e == log[p]
           prev == log[p - 1]
       IN  /\ e.cmd \in {"add", "commit", "push"}
           /\ prev.res = "ok"
           /\ e.cmd = "add" =>
                \/ e.batch = 1 /\ prev.cmd = "status"
                \/ prev.cmd = "push" /\ prev.batch = e.batch - 1
           /\ e.cmd = "commit" => prev.cmd = "add" /\ prev.batch = e.batch
           /\ e.cmd = "push" => prev.cmd = "commit" /\ prev.batch = e.batch

C7_Witness ==
  Len(log) = 7 /\ log[7].cmd = "push" /\ log[7].batch = 2

\* C8: the j-th commit issued is the commit of batch j and carries the message
\* "<prefix> j of T" with T = ceil(N/B); for N = 1200, B = 500 the batches have
\* 500, 500 and 200 paths and the messages read 1 of 3, 2 of 3, 3 of 3.
C8_CommitMessages ==
  LET commits == Entries("commit")
      T == Ceil(Len(all_files), BATCH_SIZE)
  IN  /\ \A j \in 1..Len(commits) :
           /\ commits[j].batch = j
           /\ commits[j].msg =
                [prefix |-> "Auto-batch commit: Part", ordinal |-> j, total |-> T]
      /\ NumBatches(1200, 500) = 3
      /\ <<EndIndex(0, 500, 1200) - StartIndex(0, 500),
           EndIndex(1, 500, 1200) - StartIndex(1, 500),
           EndIndex(2, 500, 1200) - StartIndex(2, 500)>> = <<500, 500, 200>>
      /\ \A k \in 0..2 : CommitMsg(k, NumBatches(1200, 500)).ordinal = k + 1
                         /\ CommitMsg(k, NumBatches(1200, 500)).total = 3

C8_Witness ==
  Len(Entries("commit")) = 3 /\ num_batches = 3 /\ pc = "done"

\* C9 as stated: exactly the records that are empty or have nothing after the
\* three-byte prefix are skipped.
C9_Original ==
  (pc # "start" /\ StatusOk) =>
    Len(all_files) = Cardinality({k \in DOMAIN records : Len(records[k]) > 3})

\* C9 (amended): the path list is the sequence of the records' path segments
\* (the record without its first three bytes) decoded as UTF-8 with undecodable
\* bytes dropped, skipping every record that is empty or whose decoded path is
\* empty; order and duplicates are kept and every path is non-empty.
C9_DecodedPaths ==
  (pc # "start" /\ StatusOk) =>
    LET seg(r) == Decode(SubSeq(r, 4, Len(r)))
        kept == SelectSeq(records, LAMBDA r : r # << >> /\ seg(r) # << >>)
    IN  /\ Len(all_files) = Len(kept)
        /\ \A k \in 1..Len(kept) : all_files[k] = seg(kept[k]) /\ all_files[k] # << >>

C9_Witness ==
  /\ pc = "check"
  /\ StatusOk
  /\ records = <<RecModified, RecBadByte, RecModified>>
  /\ all_files = <<(<<97>>), (<<97>>)>>

\* C10: the commits created exceed the successful pushes by at most one, and a
\* commit is only issued when every earlier commit of the run has been pushed.
C10_NoUnpushedPileUp ==
  /\ NumOk("commit") <= NumOk("push") + 1
  /\ \A p \in LogIdx :
       log[p].cmd = "commit" =>
         Cardinality({q \in 1..(p - 1) : log[q].cmd = "commit" /\ log[q].res = "ok"})
           = Cardinality({q \in 1..(p - 1) : log[q].cmd = "push" /\ log[q].res = "ok"})

C10_Witness ==
  pc = "done" /\ NumOk("commit") = 2 /\ NumOk("push") = 1
====
